---- MODULE Spec2Model ----
(***************************************************************************)
(* Financial dashboard: the React front end (Frontend/src/App.tsx) with    *)
(* its timeout/retry fetch client, and the Express back end that flattens  *)
(* the embedded dataset and answers /api/companies, /api/metrics and       *)
(* /api/data.                                                              *)
(*                                                                         *)
(* Three specifications share the module:                                    *)
(*   Spec        the App component: the options load chain, the chart-data *)
(*               load chains, their timers and the user's clicks;          *)
(*   SpecServer  the back end: parseData and the three GET handlers over   *)
(*               a raw dataset drawn from a bounded set;                   *)
(*   SpecChart   the LineChart component rendering a series drawn from a   *)
(*               bounded set.                                              *)
(*                                                                         *)
(* Strings the code only stores and shows are TLA+ strings.  Strings the   *)
(* back end lower-cases, trims, parses or sorts are sequences of           *)
(* one-character strings, so that these conversions are computed.          *)
(***************************************************************************)
EXTENDS Integers, Sequences, FiniteSets, TLC

VARIABLES
    \* ---- App component state (App.tsx 129-140, 146) ----
    companies, metrics, selectedCompany, selectedMetric, chartData, error,
    isLoading, isLoadingOptions, companyTicker, isMounted,
    \* ---- asynchronous activity of the front end ----
    optChain,     \* the fetchOptions invocation chain started on mount
    dataChains,   \* the live fetchData invocation chains, oldest first
    orphans,      \* fetchWithTimeout calls nobody awaits any more
    settled,      \* history: the chain that ended in the last step, if any
    \* ---- back end ----
    rawData,      \* the embedded dataset (companyData)
    req,          \* the last request the back end received
    data,         \* what parseData() returned to the handler of that request
    res,          \* the response the handler sent
    \* ---- chart ----
    chart         \* the drawing LineChart returned at its last render

uiVars == <<companies, metrics, selectedCompany, selectedMetric, chartData,
            error, isLoading, isLoadingOptions, companyTicker, isMounted,
            optChain, dataChains, orphans, settled>>
serverVars == <<rawData, req, data, res>>
vars == <<companies, metrics, selectedCompany, selectedMetric, chartData,
          error, isLoading, isLoadingOptions, companyTicker, isMounted,
          optChain, dataChains, orphans, settled, rawData, req, data, res,
          chart>>

----------------------------------------------------------------------------
(* Program constants                                                       *)

API_TIMEOUT == 10000
RETRY_DELAY == 2000
MAX_RETRIES == 3

(* Bounds                                                                  *)

\* number of fetchData chains that may be alive at the same time
MaxChains == 2

----------------------------------------------------------------------------
(* Small helpers                                                           *)

Range(s) == {s[i] : i \in 1..Len(s)}

\* error === null
NoError == ""

TimedOutMsg == "Request timed out. Please try again."
\* the message of the TypeError fetch() rejects with when the network fails
NetworkErrorMsg == "Failed to fetch"
RefreshSuffix == " Please try refreshing the page."

----------------------------------------------------------------------------
(* fetchWithTimeout (App.tsx 13-35)                                        *)
(*                                                                         *)
(* A call is [st, timer, ms]: st is the state of the fetch() promise       *)
(* ("pending", "resolved", "rejected", "aborted"), timer the state of the  *)
(* setTimeout of line 15 ("armed", "cleared", "fired") and ms the time the *)
(* timer was set to.  Time itself is not modelled: an armed timer fires at *)
(* some later moment, and the request settles at some moment, in either    *)
(* order.                                                                  *)

NoCall == [st |-> "none", timer |-> "none", ms |-> 0]

\* lines 14-25: the controller, the timer and the request
FetchStart == [st |-> "pending", timer |-> "armed", ms |-> API_TIMEOUT]

\* a mutant of FetchSettle: the timer is not cleared when the request settles
FetchSettleKeepsTimer(call, outcome) ==
    [call EXCEPT !.st = IF outcome = "response" THEN "resolved" ELSE "rejected"]

\* lines 26-27 (a response) and 29, 33 (an error that is no abort):
\* clearTimeout(id), then the response or the error goes to the caller
FetchSettle(call, outcome) ==
    [st |-> IF outcome = "response" THEN "resolved" ELSE "rejected",
     timer |-> "cleared", ms |-> call.ms]

\* line 15, the timer's callback: controller.abort(); a pending fetch rejects
\* with an AbortError, a settled one is not affected
FetchTimerFires(call) ==
    [st |-> IF call.st = "pending" THEN "aborted" ELSE call.st,
     timer |-> "fired", ms |-> call.ms]

\* lines 28-33: the error the caller gets when fetch() rejects
FetchError(call, networkMsg) ==
    IF call.st = "aborted" THEN TimedOutMsg ELSE networkMsg

\* calls that still hold a timer or a request
Live(calls) == {c \in calls : c.timer = "armed" \/ c.st = "pending"}

----------------------------------------------------------------------------
(* HTTP responses as the front end sees them, and the .then() handlers     *)
(* that turn them into data or an Error (App.tsx 157-169, 172-184,         *)
(* 234-246).  body.error = "" stands for a body without an error field     *)
(* (or a body that is no JSON: r.json().catch(() => ({}))).                *)

Pt(y, v) == [year |-> y, value |-> v]

OkBody(ticker, points, names) ==
    [success |-> TRUE, error |-> "", ticker |-> ticker, points |-> points,
     names |-> names]
FailBody(err) ==
    [success |-> FALSE, error |-> err, ticker |-> "", points |-> <<>>,
     names |-> <<>>]

Resp(ok, status, body) == [ok |-> ok, status |-> status, body |-> body]

\* 404 of the back end, with its error field
RespNotFound == Resp(FALSE, "404", FailBody("No data found"))
\* a gateway error whose body is no JSON
RespBadGateway == Resp(FALSE, "502", FailBody(""))
\* 200 whose body says success: false and gives no error
RespUnsuccessful == Resp(TRUE, "200", FailBody(""))

\* a successful answer of /api/data: points in the order the server sent them
DataOk == Resp(TRUE, "200", OkBody("ACME", <<Pt(2021, 150), Pt(2020, 100)>>, <<>>))

DataResponses == {DataOk, RespNotFound}

CompanyNames == <<"Acme Co">>
MetricNames == <<"profit", "revenue">>

CompaniesResponses ==
    {Resp(TRUE, "200", OkBody("", <<>>, CompanyNames)), RespBadGateway}
MetricsResponses ==
    {Resp(TRUE, "200", OkBody("", <<>>, MetricNames)), RespUnsuccessful}

\* the two .then() handlers: [ok, msg, body]
HandleResponse(r, fallback) ==
    IF ~r.ok
      THEN [ok |-> FALSE, body |-> r.body,
            msg |-> IF r.body.error # "" THEN r.body.error
                    ELSE "HTTP error! status: " \o r.status]
    ELSE IF ~r.body.success
      THEN [ok |-> FALSE, body |-> r.body,
            msg |-> IF r.body.error # "" THEN r.body.error ELSE fallback]
    ELSE [ok |-> TRUE, body |-> r.body, msg |-> ""]

NoBody == FailBody("")

----------------------------------------------------------------------------
(* The retry policy shared by fetchOptions and fetchData                   *)

\* a mutant of ShouldRetry: an off-by-one that allows a fourth attempt
ShouldRetryOnceMore(retryCount) == retryCount <= MAX_RETRIES - 1

\* App.tsx 201 and 263
ShouldRetry(retryCount) == retryCount < MAX_RETRIES - 1

\* App.tsx 203 and 265: delay(RETRY_DELAY * (retryCount + 1))
BackoffDelay(retryCount) == RETRY_DELAY * (retryCount + 1)

\* a mutant of OptionsFinalError: the suffix is left out
OptionsFinalErrorPlain(msg) == msg

\* App.tsx 208 (every error thrown in fetchOptions is an Error)
OptionsFinalError(msg) == msg \o RefreshSuffix

\* App.tsx 270
DataFinalError(msg) ==
    IF msg # "" THEN msg ELSE "Failed to load data. Please try again."

\* a mutant of SortByYear: the comparison is turned round, (b, a) => a.year
\* - b.year
SortByYearDescending(s) ==
    LET Before(i, j) ==
            s[i].year > s[j].year \/ (s[i].year = s[j].year /\ i < j)
        Rank(i) == 1 + Cardinality({j \in 1..Len(s) : Before(j, i)})
    IN  [k \in 1..Len(s) |-> s[CHOOSE i \in 1..Len(s) : Rank(i) = k]]

\* App.tsx 255: [...points].sort((a, b) => a.year - b.year), and line 176 of
\* the back end.  The sort is stable: a point goes to the place given by
\* the number of points that come before it, those of a smaller year and
\* those of the same year that stood before it.
SortByYear(s) ==
    LET Before(i, j) ==
            s[i].year < s[j].year \/ (s[i].year = s[j].year /\ i < j)
        Rank(i) == 1 + Cardinality({j \in 1..Len(s) : Before(j, i)})
    IN  [k \in 1..Len(s) |-> s[CHOOSE i \in 1..Len(s) : Rank(i) = k]]

----------------------------------------------------------------------------
(* Load chains.  A chain is the sequence of invocations fetchData(0),      *)
(* fetchData(1), fetchData(2) (or fetchOptions) that one call from the     *)
(* outside starts.  pc is "await" while the invocation awaits Promise.all, *)
(* "backoff" while it awaits the delay in its catch block, "idle" when     *)
(* the chain has ended.  minDelay tells whether delay(500) is "pending" or *)
(* "over"; backoff is the time the delay of the catch block was set to     *)
(* and stays until the next failure.  attempts, allTimeouts and errSeen    *)
(* are history variables: the attempts issued, whether every failed        *)
(* attempt so far timed out, and whether error has been non-null at some   *)
(* moment since the chain began.                                           *)
(* settled holds the record of the chain that ended in the last step,      *)
(* with how it ended.                                                      *)

ChainIds == 1..MaxChains
LiveChains == DOMAIN dataChains

\* the sequence s without its i-th element
Remove(s, i) == SubSeq(s, 1, i - 1) \o SubSeq(s, i + 1, Len(s))
Endpoints == {"companies", "metrics"}

IdleChain ==
    [pc |-> "idle", company |-> "", metric |-> "", retryCount |-> 0,
     call |-> NoCall, minDelay |-> "over", held |-> NoBody, e |-> "",
     backoff |-> 0, attempts |-> 0, allTimeouts |-> TRUE, errSeen |-> FALSE]

\* fetchData() called from the effect or the Retry button (App.tsx 223-249):
\* the closure's selection, the request and the 500 ms delay
NewDataChain(c, m) ==
    [IdleChain EXCEPT
        !.pc = "await", !.company = c, !.metric = m,
        !.call = FetchStart, !.minDelay = "pending", !.attempts = 1]

IdleOptChain ==
    [pc |-> "idle", retryCount |-> 0,
     calls |-> [u \in Endpoints |-> NoCall],
     bodies |-> [u \in Endpoints |-> NoBody],
     minDelay |-> "over", e |-> "", backoff |-> 0, attempts |-> 0,
     allTimeouts |-> TRUE, errSeen |-> FALSE]

NoneSettled == [chain |-> "none", ok |-> FALSE, e |-> "", body |-> NoBody,
                ch |-> IdleChain]
Settled(chain, ok, e, body, ch) ==
    [chain |-> chain, ok |-> ok, e |-> e, body |-> body, ch |-> ch]

\* what settled keeps of a chain: its history, and its selection when it is
\* a fetchData chain
History(ch) ==
    [IdleChain EXCEPT !.retryCount = ch.retryCount, !.backoff = ch.backoff,
                      !.attempts = ch.attempts,
                      !.allTimeouts = ch.allTimeouts, !.errSeen = ch.errSeen]
DataHistory(ch) ==
    [History(ch) EXCEPT !.company = ch.company, !.metric = ch.metric]

\* error has just become non-null: every chain that is alive has seen it
SeenAll(chs) == [j \in DOMAIN chs |-> [chs[j] EXCEPT !.errSeen = TRUE]]
SeenOpt(ch) == IF ch.pc = "idle" THEN ch ELSE [ch EXCEPT !.errSeen = TRUE]

\* fetchOptions() called on mount (App.tsx 148-187)
NewOptChain ==
    [IdleOptChain EXCEPT
        !.pc = "await", !.calls = [u \in Endpoints |-> FetchStart],
        !.minDelay = "pending", !.attempts = 1]

----------------------------------------------------------------------------
(* fetchData (App.tsx 223-275)                                             *)

\* lines 251-258 and the finally of line 273
DataSuccess(i, body) ==
    /\ companyTicker' = IF body.ticker # "" THEN body.ticker ELSE companyTicker
    /\ chartData' = SortByYear(body.points)
    /\ isLoading' = FALSE
    /\ dataChains' = Remove(dataChains, i)
    /\ settled' = Settled("data", TRUE, "", body, DataHistory(dataChains[i]))
    /\ UNCHANGED <<error, optChain>>

\* lines 260-274: the catch block up to its await, or to the end
DataCatch(i, ch, msg, timedOut) ==
    IF ShouldRetry(ch.retryCount)
    THEN /\ dataChains' = [dataChains EXCEPT ![i] =
                [ch EXCEPT !.pc = "backoff", !.e = msg,
                           !.backoff = BackoffDelay(ch.retryCount),
                           !.allTimeouts = @ /\ timedOut]]
         /\ settled' = NoneSettled
         /\ UNCHANGED <<error, chartData, isLoading, companyTicker, optChain>>
    ELSE /\ error' = DataFinalError(msg)
         /\ chartData' = <<>>
         /\ isLoading' = FALSE
         /\ dataChains' = SeenAll(Remove(dataChains, i))
         /\ optChain' = SeenOpt(optChain)
         /\ settled' = Settled("data", FALSE, msg, NoBody, DataHistory(ch))
         /\ UNCHANGED companyTicker

\* the server answers the request of chain i
DataResponse(i, r) ==
    LET ch == dataChains[i]
        ch2 == [ch EXCEPT !.call = FetchSettle(ch.call, "response")]
        h == HandleResponse(r, "No data available")
    IN  /\ i \in LiveChains
        /\ ch.pc = "await"
        /\ ch.call.st = "pending"
        /\ IF ~h.ok THEN DataCatch(i, ch2, h.msg, FALSE)
           ELSE IF ch.minDelay = "over" THEN DataSuccess(i, h.body)
           ELSE /\ dataChains' = [dataChains EXCEPT ![i] =
                                    [ch2 EXCEPT !.held = h.body]]
                /\ settled' = NoneSettled
                /\ UNCHANGED <<error, chartData, isLoading, companyTicker,
                               optChain>>
        /\ UNCHANGED <<companies, metrics, selectedCompany, selectedMetric,
                       isLoadingOptions, isMounted, orphans>>
        /\ UNCHANGED <<serverVars, chart>>

\* fetch() of chain i rejects: the network failed
DataNetworkError(i) ==
    LET ch == dataChains[i]
        ch2 == [ch EXCEPT !.call = FetchSettle(ch.call, "error")]
    IN  /\ i \in LiveChains
        /\ ch.pc = "await"
        /\ ch.call.st = "pending"
        /\ DataCatch(i, ch2, FetchError(ch2.call, NetworkErrorMsg), FALSE)
        /\ UNCHANGED <<companies, metrics, selectedCompany, selectedMetric,
                       isLoadingOptions, isMounted, orphans>>
        /\ UNCHANGED <<serverVars, chart>>

\* the timeout of chain i's request is due
DataTimeout(i) ==
    LET ch == dataChains[i]
        ch2 == [ch EXCEPT !.call = FetchTimerFires(ch.call)]
    IN  /\ i \in LiveChains
        /\ ch.call.timer = "armed"
        /\ IF ch.pc = "await" /\ ch.call.st = "pending"
           THEN DataCatch(i, ch2, FetchError(ch2.call, NetworkErrorMsg), TRUE)
           ELSE /\ dataChains' = [dataChains EXCEPT ![i] = ch2]
                /\ settled' = NoneSettled
                /\ UNCHANGED <<error, chartData, isLoading, companyTicker,
                               optChain>>
        /\ UNCHANGED <<companies, metrics, selectedCompany, selectedMetric,
                       isLoadingOptions, isMounted, orphans>>
        /\ UNCHANGED <<serverVars, chart>>

\* delay(500) of line 248 is over; when the data is there, Promise.all
\* resolves
DataDelayOver(i) ==
    LET ch == dataChains[i]
    IN  /\ i \in LiveChains
        /\ ch.pc = "await"
        /\ ch.minDelay = "pending"
        /\ IF ch.call.st = "resolved" THEN DataSuccess(i, ch.held)
           ELSE /\ dataChains' = [dataChains EXCEPT ![i].minDelay = "over"]
                /\ settled' = NoneSettled
                /\ UNCHANGED <<error, chartData, isLoading, companyTicker,
                               optChain>>
        /\ UNCHANGED <<companies, metrics, selectedCompany, selectedMetric,
                       isLoadingOptions, isMounted, orphans>>
        /\ UNCHANGED <<serverVars, chart>>

\* lines 265-273: the delay of the backoff is over; fetchData(retryCount + 1) runs up to
\* its await (setIsLoading(true), setError(null), the request), then the
\* invocation that called it returns through finally: setIsLoading(false)
DataRetry(i) ==
    LET ch == dataChains[i]
    IN  /\ i \in LiveChains
        /\ ch.pc = "backoff"
        /\ dataChains' = [dataChains EXCEPT ![i] =
                [ch EXCEPT !.pc = "await", !.retryCount = @ + 1,
                           !.call = FetchStart,
                           !.minDelay = "pending",
                           !.held = NoBody, !.e = "",
                           !.attempts = @ + 1]]
        /\ error' = NoError
        /\ isLoading' = FALSE
        /\ settled' = NoneSettled
        /\ UNCHANGED <<companies, metrics, selectedCompany, selectedMetric,
                       chartData, companyTicker, isLoadingOptions, isMounted,
                       optChain, orphans>>
        /\ UNCHANGED <<serverVars, chart>>

----------------------------------------------------------------------------
(* fetchOptions (App.tsx 148-214)                                          *)

OptFallback(u) ==
    IF u = "companies" THEN "Failed to load companies"
    ELSE "Failed to load metrics"

OptResponses(u) ==
    IF u = "companies" THEN CompaniesResponses ELSE MetricsResponses

AllResolved(ch) == \A u \in Endpoints : ch.calls[u].st = "resolved"

\* lines 189-194 and the finally of lines 209-213
OptSuccess(ch) ==
    /\ optChain' = IdleOptChain
    /\ settled' = Settled("options", TRUE, "",
                          OkBody("", <<>>, <<ch.bodies["companies"].names,
                                             ch.bodies["metrics"].names>>),
                          History(ch))
    /\ IF isMounted
       THEN /\ companies' = ch.bodies["companies"].names
            /\ metrics' = ch.bodies["metrics"].names
            /\ isLoadingOptions' = FALSE
       ELSE UNCHANGED <<companies, metrics, isLoadingOptions>>
    /\ UNCHANGED <<error, orphans, dataChains>>

\* lines 196-213: Promise.all rejected because the request to endpoint u
\* failed.  The request to the other endpoint, when it is still pending,
\* goes on with nobody awaiting it.
OptCatch(ch, u, msg, timedOut) ==
    /\ orphans' = Live(orphans \cup {ch.calls[v] : v \in Endpoints \ {u}})
    /\ IF ~isMounted
       THEN /\ optChain' = IdleOptChain
            /\ settled' = Settled("options", FALSE, msg, NoBody, History(ch))
            /\ UNCHANGED <<error, isLoadingOptions, dataChains>>
       ELSE IF ShouldRetry(ch.retryCount)
       THEN /\ optChain' =
                [ch EXCEPT !.pc = "backoff", !.e = msg,
                           !.calls = [v \in Endpoints |->
                                        IF v = u THEN ch.calls[u] ELSE NoCall],
                           !.bodies = [v \in Endpoints |-> NoBody],
                           !.backoff = BackoffDelay(ch.retryCount),
                           !.allTimeouts = @ /\ timedOut]
            /\ settled' = NoneSettled
            /\ UNCHANGED <<error, isLoadingOptions, dataChains>>
       ELSE /\ error' = OptionsFinalError(msg)
            /\ isLoadingOptions' = FALSE
            /\ optChain' = IdleOptChain
            /\ dataChains' = SeenAll(dataChains)
            /\ settled' = Settled("options", FALSE, msg, NoBody, History(ch))
    /\ UNCHANGED <<companies, metrics>>

\* the server answers the request to /api/companies or /api/metrics
OptResponse(u, r) ==
    LET ch == optChain
        ch2 == [ch EXCEPT !.calls[u] = FetchSettle(ch.calls[u], "response")]
        h == HandleResponse(r, OptFallback(u))
        ch3 == [ch2 EXCEPT !.bodies[u] = h.body]
    IN  /\ ch.pc = "await"
        /\ ch.calls[u].st = "pending"
        /\ IF ~h.ok THEN OptCatch(ch2, u, h.msg, FALSE)
           ELSE IF AllResolved(ch3) /\ ch.minDelay = "over" THEN OptSuccess(ch3)
           ELSE /\ optChain' = ch3
                /\ settled' = NoneSettled
                /\ UNCHANGED <<companies, metrics, error, isLoadingOptions,
                               orphans, dataChains>>
        /\ UNCHANGED <<selectedCompany, selectedMetric, chartData, isLoading,
                       companyTicker, isMounted>>
        /\ UNCHANGED <<serverVars, chart>>

\* fetch() of one of the two requests rejects: the network failed
OptNetworkError(u) ==
    LET ch == optChain
        ch2 == [ch EXCEPT !.calls[u] = FetchSettle(ch.calls[u], "error")]
    IN  /\ ch.pc = "await"
        /\ ch.calls[u].st = "pending"
        /\ OptCatch(ch2, u, FetchError(ch2.calls[u], NetworkErrorMsg), FALSE)
        /\ UNCHANGED <<selectedCompany, selectedMetric, chartData, isLoading,
                       companyTicker, isMounted>>
        /\ UNCHANGED <<serverVars, chart>>

\* the timeout of one of the two requests is due
OptTimeout(u) ==
    LET ch == optChain
        ch2 == [ch EXCEPT !.calls[u] = FetchTimerFires(ch.calls[u])]
    IN  /\ ch.pc # "idle"
        /\ ch.calls[u].timer = "armed"
        /\ IF ch.pc = "await" /\ ch.calls[u].st = "pending"
           THEN OptCatch(ch2, u, FetchError(ch2.calls[u], NetworkErrorMsg), TRUE)
           ELSE /\ optChain' = ch2
                /\ settled' = NoneSettled
                /\ UNCHANGED <<companies, metrics, error, isLoadingOptions,
                               orphans, dataChains>>
        /\ UNCHANGED <<selectedCompany, selectedMetric, chartData, isLoading,
                       companyTicker, isMounted>>
        /\ UNCHANGED <<serverVars, chart>>

\* delay(500) of line 186 is over; when both lists are there, Promise.all
\* resolves
OptDelayOver ==
    /\ optChain.pc = "await"
    /\ optChain.minDelay = "pending"
    /\ IF AllResolved(optChain) THEN OptSuccess(optChain)
       ELSE /\ optChain' = [optChain EXCEPT !.minDelay = "over"]
            /\ settled' = NoneSettled
            /\ UNCHANGED <<companies, metrics, error, isLoadingOptions,
                           orphans, dataChains>>
    /\ UNCHANGED <<selectedCompany, selectedMetric, chartData, isLoading,
                   companyTicker, isMounted>>
    /\ UNCHANGED <<serverVars, chart>>

\* lines 203-213: the delay of the backoff is over; fetchOptions(retryCount + 1) runs up
\* to its await (or returns at once when unmounted), then the invocation
\* that called it returns through finally: setIsLoadingOptions(false)
OptRetry ==
    LET ch == optChain
    IN  /\ ch.pc = "backoff"
        /\ IF isMounted
           THEN /\ optChain' =
                    [ch EXCEPT !.pc = "await", !.retryCount = @ + 1,
                               !.calls = [u \in Endpoints |-> FetchStart],
                               !.minDelay = "pending",
                               !.e = "", !.attempts = @ + 1]
                /\ error' = NoError
                /\ isLoadingOptions' = FALSE
                /\ settled' = NoneSettled
           ELSE /\ optChain' = IdleOptChain
                /\ settled' = Settled("options", FALSE, ch.e, NoBody,
                                      History(ch))
                /\ UNCHANGED <<error, isLoadingOptions>>
        /\ UNCHANGED <<companies, metrics, selectedCompany, selectedMetric,
                       chartData, isLoading, companyTicker, isMounted,
                       dataChains, orphans>>
        /\ UNCHANGED <<serverVars, chart>>

\* a request nobody awaits settles: fetchWithTimeout clears its timer
OrphanSettles(o) ==
    /\ o \in orphans
    /\ o.st = "pending"
    /\ \E outcome \in {"response", "error"} :
          orphans' = Live((orphans \ {o}) \cup {FetchSettle(o, outcome)})
    /\ settled' = NoneSettled
    /\ UNCHANGED <<companies, metrics, selectedCompany, selectedMetric,
                   chartData, error, isLoading, isLoadingOptions,
                   companyTicker, isMounted, optChain, dataChains>>
    /\ UNCHANGED <<serverVars, chart>>

\* the timeout of a request nobody awaits is due
OrphanTimeout(o) ==
    /\ o \in orphans
    /\ o.timer = "armed"
    /\ orphans' = Live((orphans \ {o}) \cup {FetchTimerFires(o)})
    /\ settled' = NoneSettled
    /\ UNCHANGED <<companies, metrics, selectedCompany, selectedMetric,
                   chartData, error, isLoading, isLoadingOptions,
                   companyTicker, isMounted, optChain, dataChains>>
    /\ UNCHANGED <<serverVars, chart>>

----------------------------------------------------------------------------
(* The user interface (App.tsx 277-290, 358-588)                           *)

\* lines 374 and 401: the disabled attributes of the two selects
CompanySelectEnabled == ~(isLoadingOptions \/ isLoading)
MetricSelectEnabled == ~(isLoading \/ selectedCompany = "" \/ isLoadingOptions)

\* lines 488-503: the error screen, with its Retry and Start Over buttons
ErrorScreenShown ==
    /\ selectedCompany # "" /\ selectedMetric # ""
    /\ ~isLoading
    /\ error # NoError

\* lines 488-529: the no-data screen, with its Select Different Metric button
NoDataScreenShown ==
    /\ selectedCompany # "" /\ selectedMetric # ""
    /\ ~isLoading
    /\ error = NoError
    /\ chartData = <<>>

\* fetchData() with the selection (c, m) of the current render, up to its
\* await (lines 223-233)
StartFetchData(c, m) ==
    /\ Len(dataChains) < MaxChains
    /\ dataChains' = Append(dataChains, NewDataChain(c, m))
    /\ isLoading' = TRUE
    /\ error' = NoError

\* lines 277-290: the effect that runs when the selection has become (c, m)
SelectionEffect(c, m) ==
    IF c # "" /\ m # ""
    THEN /\ StartFetchData(c, m)
         /\ UNCHANGED chartData
    ELSE /\ chartData' = <<>>
         /\ error' = NoError
         /\ UNCHANGED <<isLoading, dataChains>>

\* lines 370-373: the user picks another entry of the company select
SelectCompany(c) ==
    /\ isMounted
    /\ CompanySelectEnabled
    /\ c \in {""} \cup Range(companies)
    /\ c # selectedCompany
    /\ selectedCompany' = c
    /\ selectedMetric' = ""
    /\ SelectionEffect(c, "")
    /\ UNCHANGED <<companies, metrics, isLoadingOptions, companyTicker,
                   isMounted, optChain, orphans>>
    /\ settled' = NoneSettled
    /\ UNCHANGED <<serverVars, chart>>

\* line 400: the user picks another entry of the metric select
SelectMetric(m) ==
    /\ isMounted
    /\ MetricSelectEnabled
    /\ m \in {""} \cup Range(metrics)
    /\ m # selectedMetric
    /\ selectedMetric' = m
    /\ SelectionEffect(selectedCompany, m)
    /\ UNCHANGED <<companies, metrics, selectedCompany, isLoadingOptions,
                   companyTicker, isMounted, optChain, orphans>>
    /\ settled' = NoneSettled
    /\ UNCHANGED <<serverVars, chart>>

\* lines 509-516: the Retry button
RetryClick ==
    /\ isMounted
    /\ ErrorScreenShown
    /\ StartFetchData(selectedCompany, selectedMetric)
    /\ UNCHANGED <<companies, metrics, selectedCompany, selectedMetric,
                   chartData, isLoadingOptions, companyTicker, isMounted,
                   optChain, orphans>>
    /\ settled' = NoneSettled
    /\ UNCHANGED <<serverVars, chart>>

\* lines 517-526: the Start Over button, then the effect
StartOverClick ==
    /\ isMounted
    /\ ErrorScreenShown
    /\ selectedCompany' = ""
    /\ selectedMetric' = ""
    /\ SelectionEffect("", "")
    /\ UNCHANGED <<companies, metrics, isLoadingOptions, companyTicker,
                   isMounted, optChain, orphans>>
    /\ settled' = NoneSettled
    /\ UNCHANGED <<serverVars, chart>>

\* lines 542-549: the Select Different Metric button, then the effect
SelectDifferentMetricClick ==
    /\ isMounted
    /\ NoDataScreenShown
    /\ selectedMetric' = ""
    /\ SelectionEffect(selectedCompany, "")
    /\ UNCHANGED <<companies, metrics, selectedCompany, isLoadingOptions,
                   companyTicker, isMounted, optChain, orphans>>
    /\ settled' = NoneSettled
    /\ UNCHANGED <<serverVars, chart>>

\* lines 218-220: the component is unmounted
Unmount ==
    /\ isMounted
    /\ isMounted' = FALSE
    /\ UNCHANGED <<companies, metrics, selectedCompany, selectedMetric,
                   chartData, error, isLoading, isLoadingOptions,
                   companyTicker, optChain, dataChains, orphans>>
    /\ settled' = NoneSettled
    /\ UNCHANGED <<serverVars, chart>>

----------------------------------------------------------------------------
(* Strings of the back end: sequences of one-character strings over the    *)
(* space, the digits and the letters, ordered by UTF-16 code unit          *)

Digits == <<"0", "1", "2", "3", "4", "5", "6", "7", "8", "9">>
UpperCase == <<"A", "B", "C", "D", "E", "F", "G", "H", "I", "J", "K", "L", "M",
               "N", "O", "P", "Q", "R", "S", "T", "U", "V", "W", "X", "Y", "Z">>
LowerCase == <<"a", "b", "c", "d", "e", "f", "g", "h", "i", "j", "k", "l", "m",
               "n", "o", "p", "q", "r", "s", "t", "u", "v", "w", "x", "y", "z">>

IsIn(c, s) == \E i \in 1..Len(s) : s[i] = c
IndexOf(c, s) == CHOOSE i \in 1..Len(s) : s[i] = c

\* the code unit of a character: " " is 32, "0" 48, "A" 65, "a" 97
Code(c) ==
    IF IsIn(c, Digits) THEN 47 + IndexOf(c, Digits)
    ELSE IF IsIn(c, UpperCase) THEN 64 + IndexOf(c, UpperCase)
    ELSE IF IsIn(c, LowerCase) THEN 96 + IndexOf(c, LowerCase)
    ELSE 32

\* String.prototype.toLowerCase (part_000 73, 135, 154, 155)
Chars ==
    {" "} \cup Range(Digits) \cup Range(UpperCase) \cup Range(LowerCase)
ToLowerCaseChar ==
    [c \in Chars |->
        IF IsIn(c, UpperCase) THEN LowerCase[IndexOf(c, UpperCase)] ELSE c]
ToLowerCase(s) == [i \in 1..Len(s) |-> ToLowerCaseChar[s[i]]]

\* String.prototype.trim (part_000 134, 135)
Trim(s) ==
    LET inked == {i \in 1..Len(s) : s[i] # " "}
    IN  IF inked = {} THEN <<>>
        ELSE SubSeq(s, CHOOSE i \in inked : \A j \in inked : i <= j,
                       CHOOSE i \in inked : \A j \in inked : i >= j)

\* parseInt(yearStr, 10) (part_000 67): white space is skipped, then the
\* longest run of digits is read; NaN when there is none.  What follows the
\* digits is ignored.  (No key of the model carries a sign.)
NaN == [nan |-> TRUE, n |-> 0]

RECURSIVE DigitsValue(_)
DigitsValue(s) ==
    IF s = <<>> THEN 0
    ELSE 10 * DigitsValue(SubSeq(s, 1, Len(s) - 1))
            + (IndexOf(s[Len(s)], Digits) - 1)

ParseInt(str) ==
    LET first == {i \in 1..Len(str) : str[i] # " "}
        from == IF first = {} THEN Len(str) + 1
                ELSE CHOOSE i \in first : \A j \in first : i <= j
        t == SubSeq(str, from, Len(str))
        k == Cardinality({i \in 1..Len(t) : \A j \in 1..i : IsIn(t[j], Digits)})
    IN  IF k = 0 THEN NaN
        ELSE [nan |-> FALSE, n |-> DigitsValue(SubSeq(t, 1, k))]

\* the comparison Array.prototype.sort() makes without a compare function:
\* code unit by code unit, a proper prefix first
RECURSIVE StrLess(_, _)
StrLess(a, b) ==
    IF b = <<>> THEN FALSE
    ELSE IF a = <<>> THEN TRUE
    ELSE IF a[1] = b[1] THEN StrLess(Tail(a), Tail(b))
    ELSE Code(a[1]) < Code(b[1])

\* Array.prototype.sort() of part_000 81-82: a stable sort by StrLess
Sort(s) ==
    LET Before(i, j) == StrLess(s[i], s[j]) \/ (s[i] = s[j] /\ i < j)
        Rank(i) == 1 + Cardinality({j \in 1..Len(s) : Before(j, i)})
    IN  [k \in 1..Len(s) |-> s[CHOOSE i \in 1..Len(s) : Rank(i) = k]]

\* a mutant of SetAdd: the value is added even when the set has it
SetAddAgain(set, x) == Append(set, x)

\* Set.prototype.add (part_000 55, 62); Array.from(set) of lines 81-82
\* gives the elements in the order they were first added, the order of
\* this sequence
SetAdd(set, x) == IF x \in Range(set) THEN set ELSE Append(set, x)

----------------------------------------------------------------------------
(* The embedded dataset (part_000 3, 29-38) as parseData reads it.         *)
(* A raw record is [Ticker, companyName, Financials]; Ticker = "" and     *)
(* companyName = <<>> stand for a field that is missing or empty (lines    *)
(* 50-51), Financials = <<>> for one that is missing or has no entry       *)
(* (line 57).  Financials and a year mapping are the sequences that        *)
(* Object.entries() gives (lines 59, 64), so no key comes twice in one of  *)
(* them.  A value is [number, v]: number tells typeof value === 'number'.  *)

Num(v) == [number |-> TRUE, v |-> v]
\* a value that is no number: null or a string such as "n/a"
NotANumber == [number |-> FALSE, v |-> 0]

Entry(key, value) == [key |-> key, value |-> value]
\* years that is an object: a mapping from year keys to values
Mapping(entries) == [kind |-> "object", entries |-> entries]
\* years that is null, and years that is a string
YearsNull == [kind |-> "null", entries |-> <<>>]
YearsString == [kind |-> "string", entries |-> <<>>]

MetricEntry(metric, years) == [metric |-> metric, years |-> years]
RawRecord(ticker, name, financials) ==
    [Ticker |-> ticker, companyName |-> name, Financials |-> financials]

AcmeCo == <<"A", "c", "m", "e", " ", "C", "o">>
AcmeCoUpper == <<"A", "C", "M", "E", " ", "C", "O">>
Revenue == <<"R", "e", "v", "e", "n", "u", "e">>
RevenueLower == <<"r", "e", "v", "e", "n", "u", "e">>
Profit == <<"P", "r", "o", "f", "i", "t">>
Key2020 == <<"2", "0", "2", "0">>
Key2021 == <<"2", "0", "2", "1">>
Key2022E == <<"2", "0", "2", "2", "E">>
KeyTTM == <<"T", "T", "M">>

YearsA == Mapping(<<Entry(Key2020, Num(100)), Entry(Key2021, Num(150))>>)
YearsB ==
    Mapping(<<Entry(Key2020, NotANumber), Entry(Key2021, Num(150)),
              Entry(Key2022E, Num(90)), Entry(KeyTTM, Num(120))>>)

FinancialsPool ==
    { <<>>,
      <<MetricEntry(Revenue, YearsA)>>,
      <<MetricEntry(Revenue, YearsB), MetricEntry(RevenueLower, YearsA)>>,
      <<MetricEntry(Profit, YearsNull), MetricEntry(Revenue, YearsA)>>,
      <<MetricEntry(Profit, YearsString)>>,
      <<MetricEntry(Revenue, YearsB), MetricEntry(Profit, Mapping(<<>>))>> }

RecordPool ==
    {RawRecord("ACME", AcmeCo, f) : f \in FinancialsPool}
       \cup {RawRecord("ACMU", AcmeCoUpper, <<MetricEntry(Revenue, YearsA)>>),
             RawRecord("", AcmeCo, <<MetricEntry(Revenue, YearsA)>>),
             RawRecord("BETA", <<>>, <<MetricEntry(Revenue, YearsA)>>)}

\* number of records of the dataset
MaxRecords == 2

RawDatasets == UNION {[1..n -> RecordPool] : n \in 0..MaxRecords}

----------------------------------------------------------------------------
(* parseData (part_000 40-91)                                              *)

\* a mutant of IsNumber: every value passes for a number
IsNumberAny(value) == TRUE

\* line 65: typeof value === 'number'
IsNumber(value) == value.number

\* line 60: !years || typeof years !== 'object'
NoObject(years) == years.kind # "object"

\* lines 64-77: the loop over the entries of one year mapping
RECURSIVE YearLoop(_, _, _, _, _)
YearLoop(entries, companyName, ticker, metric, records) ==
    IF entries = <<>> THEN records
    ELSE LET yearStr == Head(entries).key
             value == Head(entries).value
             year == ParseInt(yearStr)
         IN  YearLoop(Tail(entries), companyName, ticker, metric,
                IF ~IsNumber(value) THEN records
                ELSE IF year.nan THEN records
                ELSE Append(records,
                        [company |-> companyName, ticker |-> ticker,
                         field |-> ToLowerCase(metric), year |-> year.n,
                         value |-> value.v]))

\* lines 59-78: the loop over the entries of Financials; acc holds the set
\* metrics and the array records
RECURSIVE MetricLoop(_, _, _, _)
MetricLoop(financials, companyName, ticker, acc) ==
    IF financials = <<>> THEN acc
    ELSE LET metric == Head(financials).metric
             years == Head(financials).years
         IN  MetricLoop(Tail(financials), companyName, ticker,
                IF NoObject(years) THEN acc
                ELSE [acc EXCEPT
                        !.metrics = SetAdd(@, metric),
                        !.records = YearLoop(years.entries, companyName,
                                             ticker, metric, @)])

\* lines 49-79: the loop over the raw records
RECURSIVE RecordLoop(_, _)
RecordLoop(raw, acc) ==
    IF raw = <<>> THEN acc
    ELSE LET ticker == Head(raw).Ticker
             companyName == Head(raw).companyName
         IN  RecordLoop(Tail(raw),
                IF ticker = "" \/ companyName = <<>> THEN acc
                ELSE MetricLoop(Head(raw).Financials, companyName, ticker,
                        [acc EXCEPT !.companies = SetAdd(@, companyName)]))

parseData(raw) ==
    LET acc == RecordLoop(raw, [companies |-> <<>>, metrics |-> <<>>,
                                records |-> <<>>])
    IN  [records |-> acc.records,
         companies |-> Sort(acc.companies),
         metrics |-> Sort(acc.metrics)]

----------------------------------------------------------------------------
(* The GET handlers (part_000 93-199).  A response is one record for all   *)
(* handlers: status, then the fields of the JSON body, with <<>> and ""    *)
(* for the fields the body does not have.                                  *)

NoData == [records |-> <<>>, companies |-> <<>>, metrics |-> <<>>]
NoReq == [url |-> "", company |-> <<>>, metric |-> <<>>]
NoRes ==
    [status |-> 0, success |-> FALSE, count |-> 0, companies |-> <<>>,
     metrics |-> <<>>, company |-> <<>>, ticker |-> "", metric |-> <<>>,
     points |-> <<>>, found |-> FALSE, error |-> ""]

Req(url, company, metric) ==
    [url |-> url, company |-> company, metric |-> metric]

\* lines 93-111
GetCompanies ==
    /\ req' = Req("/api/companies", <<>>, <<>>)
    /\ data' = parseData(rawData)
    /\ res' = [NoRes EXCEPT !.status = 200, !.success = TRUE,
                            !.count = Len(data'.companies),
                            !.companies = data'.companies]
    /\ UNCHANGED rawData
    /\ UNCHANGED <<uiVars, chart>>

\* lines 113-131
GetMetrics ==
    /\ req' = Req("/api/metrics", <<>>, <<>>)
    /\ data' = parseData(rawData)
    /\ res' = [NoRes EXCEPT !.status = 200, !.success = TRUE,
                            !.count = Len(data'.metrics),
                            !.metrics = data'.metrics]
    /\ UNCHANGED rawData
    /\ UNCHANGED <<uiVars, chart>>

\* a mutant of Matches: the company is compared as it is written
MatchesCaseOfCompany(r, company, metric) ==
    /\ r.company = company
    /\ ToLowerCase(r.field) = ToLowerCase(metric)

\* lines 153-156: the filter's predicate
Matches(r, company, metric) ==
    /\ ToLowerCase(r.company) = ToLowerCase(company)
    /\ ToLowerCase(r.field) = ToLowerCase(metric)

\* Array.prototype.filter
RECURSIVE Filter(_, _, _)
Filter(records, company, metric) ==
    IF records = <<>> THEN <<>>
    ELSE (IF Matches(Head(records), company, metric)
          THEN <<Head(records)>> ELSE <<>>)
            \o Filter(Tail(records), company, metric)

\* a mutant of Resolve: the 404 branch is missing, an empty result is sent
\* as a success
ResolveNeverNotFound(records, company, metric) ==
    LET companyRecords == Filter(records, company, metric)
        points == SortByYear([i \in 1..Len(companyRecords) |->
                                 Pt(companyRecords[i].year,
                                    companyRecords[i].value)])
    IN  [NoRes EXCEPT
            !.status = 200, !.success = TRUE, !.company = company,
            !.ticker = IF Len(companyRecords) = 0 THEN ""
                       ELSE companyRecords[1].ticker,
            !.metric = metric, !.points = points, !.count = Len(points),
            !.found = Len(points) > 0]

\* lines 153-190: the answer to a query that has both parameters
Resolve(records, company, metric) ==
    LET companyRecords == Filter(records, company, metric)
        points == SortByYear([i \in 1..Len(companyRecords) |->
                                 Pt(companyRecords[i].year,
                                    companyRecords[i].value)])
    IN  IF Len(companyRecords) = 0
        THEN [NoRes EXCEPT
                !.status = 404,
                !.error = "No data found for company and metric",
                !.company = company, !.metric = metric]
        ELSE [NoRes EXCEPT
                !.status = 200, !.success = TRUE, !.company = company,
                !.ticker = companyRecords[1].ticker, !.metric = metric,
                !.points = points, !.count = Len(points),
                !.found = Len(points) > 0]

\* lines 133-199: the response to GET /api/data?company=c&metric=m over the
\* dataset raw
ApiData(raw, c, m) ==
    LET company == Trim(c)
        metric == ToLowerCase(Trim(m))
    IN  IF company = <<>> \/ metric = <<>>
        THEN [NoRes EXCEPT
                !.status = 400,
                !.error = "Missing required query params: company, metric",
                !.company = company, !.metric = metric]
        ELSE Resolve(parseData(raw).records, company, metric)

GetData(c, m) ==
    /\ req' = Req("/api/data", c, m)
    /\ res' = ApiData(rawData, c, m)
    /\ data' = IF res'.status = 400 THEN NoData ELSE parseData(rawData)
    /\ UNCHANGED rawData
    /\ UNCHANGED <<uiVars, chart>>

----------------------------------------------------------------------------
(* Numbers of the chart.  The coordinates LineChart computes are quotients; *)
(* a number is [finite, n, d]: the fraction n / d in lowest terms with     *)
(* d > 0, or, with finite = FALSE, the NaN or Infinity that a division by  *)
(* zero gives and every operation hands on.                                *)

NotFinite == [finite |-> FALSE, n |-> 0, d |-> 1]

Abs(k) == IF k < 0 THEN -k ELSE k

RECURSIVE GCD(_, _)
GCD(a, b) == IF b = 0 THEN a ELSE GCD(b, a % b)

\* the fraction n / d, d # 0, in lowest terms
Fraction(n, d) ==
    LET g == GCD(Abs(n), Abs(d))
        sign == IF d < 0 THEN -1 ELSE 1
    IN  [finite |-> TRUE, n |-> sign * (n \div g), d |-> sign * (d \div g)]

Number(k) == [finite |-> TRUE, n |-> k, d |-> 1]

Plus(p, q) ==
    IF ~p.finite \/ ~q.finite THEN NotFinite
    ELSE Fraction(p.n * q.d + q.n * p.d, p.d * q.d)
Minus(p, q) ==
    IF ~p.finite \/ ~q.finite THEN NotFinite
    ELSE Fraction(p.n * q.d - q.n * p.d, p.d * q.d)
Times(p, q) ==
    IF ~p.finite \/ ~q.finite THEN NotFinite
    ELSE Fraction(p.n * q.n, p.d * q.d)
\* p / q: 0 / 0 is NaN and k / 0 is Infinity
Divide(p, q) ==
    IF ~p.finite \/ ~q.finite \/ q.n = 0 THEN NotFinite
    ELSE Fraction(p.n * q.d, p.d * q.n)

\* a mutant of OrOne: the range is used as it is
OrOneNot(p) == p

\* App.tsx 69, 73: range || 1, the range when it is neither 0 nor NaN
OrOne(p) == IF ~p.finite \/ p.n = 0 THEN Number(1) ELSE p

----------------------------------------------------------------------------
(* LineChart (App.tsx 55-119)                                              *)

width == 800
height == 420
margin == [top |-> 30, right |-> 30, bottom |-> 40, left |-> 70]

\* Math.min(...xs) and Math.max(...xs) of lines 62-65, xs not empty
MathMin(xs) == CHOOSE x \in Range(xs) : \A y \in Range(xs) : x <= y
MathMax(xs) == CHOOSE x \in Range(xs) : \A y \in Range(xs) : x >= y

\* lines 60-61
Years(points) == [i \in 1..Len(points) |-> points[i].year]
Values(points) == [i \in 1..Len(points) |-> points[i].value]

\* the denominators of lines 69 and 73
XDenominator(points) ==
    OrOne(Number(MathMax(Years(points)) - MathMin(Years(points))))
YDenominator(points) ==
    OrOne(Number(MathMax(Values(points)) - MathMin(Values(points))))

\* lines 67-70; y is a number of the chart
xScale(points, y) ==
    LET rw == width - margin.left - margin.right
        minYear == MathMin(Years(points))
    IN  Plus(Number(margin.left),
             Times(Divide(Minus(y, Number(minYear)), XDenominator(points)),
                   Number(rw)))

\* lines 71-74; v is a number of the chart
yScale(points, v) ==
    LET rh == height - margin.top - margin.bottom
        minVal == MathMin(Values(points))
    IN  Minus(Number(margin.top + rh),
              Times(Divide(Minus(v, Number(minVal)), YDenominator(points)),
                    Number(rh)))

\* lines 76-78: the commands of the path, M for the first point and L for
\* the others
pathD(points) ==
    [i \in 1..Len(points) |->
        [cmd |-> IF i = 1 THEN "M" ELSE "L",
         x |-> xScale(points, Number(points[i].year)),
         y |-> yScale(points, Number(points[i].value))]]

\* line 80: Array.from(new Set(years)), the years in the order they come
\* first
RECURSIVE Unique(_)
Unique(xs) ==
    IF xs = <<>> THEN <<>>
    ELSE LET rest == Unique(SubSeq(xs, 1, Len(xs) - 1))
         IN  SetAdd(rest, xs[Len(xs)])

\* lines 81-82
yTicks == 5
yTickVals(points) ==
    LET minVal == MathMin(Values(points))
        maxVal == MathMax(Values(points))
    IN  [k \in 1..(yTicks + 1) |->
            Plus(Number(minVal),
                 Divide(Number((k - 1) * (maxVal - minVal)), Number(yTicks)))]

\* lines 84-118: what is drawn
LineChart(points) ==
    [xTicks |-> LET xt == Unique(Years(points))
                IN  [k \in 1..Len(xt) |-> xScale(points, Number(xt[k]))],
     yTicks |-> LET yt == yTickVals(points)
                IN  [k \in 1..Len(yt) |-> yScale(points, yt[k])],
     path |-> pathD(points),
     circles |-> [i \in 1..Len(points) |->
                    [cx |-> xScale(points, Number(points[i].year)),
                     cy |-> yScale(points, Number(points[i].value))]]]

NoChart == [xTicks |-> <<>>, yTicks |-> <<>>, path |-> <<>>, circles |-> <<>>]

\* App.tsx 488-562: the branch of main that renders LineChart
ChartShown ==
    /\ selectedCompany # "" /\ selectedMetric # ""
    /\ ~isLoading
    /\ error = NoError
    /\ chartData # <<>>

\* App.tsx 558-561: App renders <LineChart points={chartData} />
Render ==
    /\ ChartShown
    /\ chart' = LineChart(chartData)
    /\ UNCHANGED <<uiVars, serverVars>>

----------------------------------------------------------------------------
(* The App component after its first render and its mount effects          *)
(* (App.tsx 129-140, 216, 277-285): fetchOptions() is awaiting its first   *)
(* attempt and nothing is selected.                                        *)

InitUI ==
    /\ companies = <<>>
    /\ metrics = <<>>
    /\ selectedCompany = ""
    /\ selectedMetric = ""
    /\ chartData = <<>>
    /\ error = NoError
    /\ isLoading = FALSE
    /\ isLoadingOptions = TRUE
    /\ companyTicker = ""
    /\ isMounted = TRUE
    /\ optChain = NewOptChain
    /\ dataChains = <<>>
    /\ orphans = {}
    /\ settled = NoneSettled

\* the back end at rest, with an empty dataset
Init ==
    /\ InitUI
    /\ rawData = <<>>
    /\ req = NoReq
    /\ data = NoData
    /\ res = NoRes
    /\ chart = NoChart

Next ==
    \/ \E u \in Endpoints : \E r \in OptResponses(u) : OptResponse(u, r)
    \/ \E u \in Endpoints : OptNetworkError(u)
    \/ \E u \in Endpoints : OptTimeout(u)
    \/ OptDelayOver
    \/ OptRetry
    \/ \E o \in orphans : OrphanSettles(o)
    \/ \E o \in orphans : OrphanTimeout(o)
    \/ \E c \in {""} \cup Range(companies) : SelectCompany(c)
    \/ \E m \in {""} \cup Range(metrics) : SelectMetric(m)
    \/ RetryClick
    \/ StartOverClick
    \/ SelectDifferentMetricClick
    \/ \E i \in ChainIds : \E r \in DataResponses : DataResponse(i, r)
    \/ \E i \in ChainIds : DataNetworkError(i)
    \/ \E i \in ChainIds : DataTimeout(i)
    \/ \E i \in ChainIds : DataDelayOver(i)
    \/ \E i \in ChainIds : DataRetry(i)
    \/ Unmount

Spec == Init /\ [][Next]_vars

----------------------------------------------------------------------------
(* The back end serving requests over a dataset                            *)

AcmeCoLower == ToLowerCase(AcmeCo)
AcmeCoPadded == <<" ">> \o AcmeCoUpper \o <<" ">>
Unknown == <<"U", "n", "k", "n", "o", "w", "n">>
RevenueUpper == <<"R", "E", "V", "E", "N", "U", "E">>
ProfitLower == <<"p", "r", "o", "f", "i", "t">>

\* the values of the query parameters; <<>> is a parameter that is missing
QueryCompanies == {<<>>, AcmeCoLower, AcmeCoPadded, Unknown}
QueryMetrics == {<<>>, Revenue, RevenueUpper, ProfitLower}

InitServer ==
    /\ InitUI
    /\ rawData \in RawDatasets
    /\ req = NoReq
    /\ data = NoData
    /\ res = NoRes
    /\ chart = NoChart

NextServer ==
    \/ GetCompanies
    \/ GetMetrics
    \/ \E c \in QueryCompanies : \E m \in QueryMetrics : GetData(c, m)

SpecServer == InitServer /\ [][NextServer]_vars

----------------------------------------------------------------------------
(* LineChart rendering a series.  chartData is what fetchData set: the     *)
(* points of a successful answer, sorted by year (App.tsx 255-256).        *)

\* number of points of the series
MaxPoints == 3

SeriesYears == {2019, 2020, 2021}
SeriesValues == {-50, 100, 150}

Series ==
    UNION {{s \in [1..n -> {Pt(y, v) : y \in SeriesYears, v \in SeriesValues}] :
               s = SortByYear(s)} : n \in 1..MaxPoints}

InitChart ==
    /\ companies = CompanyNames
    /\ metrics = MetricNames
    /\ selectedCompany = "Acme Co"
    /\ selectedMetric = "revenue"
    /\ chartData \in Series
    /\ error = NoError
    /\ isLoading = FALSE
    /\ isLoadingOptions = FALSE
    /\ companyTicker = "ACME"
    /\ isMounted = TRUE
    /\ optChain = IdleOptChain
    /\ dataChains = <<>>
    /\ orphans = {}
    /\ settled = NoneSettled
    /\ rawData = <<>>
    /\ req = NoReq
    /\ data = NoData
    /\ res = NoRes
    /\ chart = NoChart

NextChart == Render

SpecChart == InitChart /\ [][NextChart]_vars

----------------------------------------------------------------------------
(* Claims about the front end, checked under Spec                          *)

\* the third attempt of a chain has failed and the failure is surfaced
\* (fetchOptions surfaces nothing once the component is unmounted)
FinalFailure(chain) ==
    /\ settled.chain = chain
    /\ ~settled.ok
    /\ settled.ch.attempts = MAX_RETRIES
    /\ chain = "options" => isMounted

RetryPolicyKept(ch) ==
    /\ ch.attempts <= MAX_RETRIES
    /\ ch.pc = "await" => ch.backoff = RETRY_DELAY * (ch.attempts - 1)
    /\ ch.pc = "backoff"
          => ch.attempts < MAX_RETRIES /\ ch.backoff = RETRY_DELAY * ch.attempts

\* C1: every load chain (fetchOptions on mount, fetchData on a selection
\* change or a Retry click) makes at most 3 attempts; attempt k + 1 starts
\* only out of the delay of RETRY_DELAY * k that follows the k-th failure
\* (2000 ms, then 4000 ms); no delay and no attempt follows the failure of
\* the 3rd attempt.
C1_AtMostThreeAttemptsLinearBackoff ==
    /\ \A i \in LiveChains : RetryPolicyKept(dataChains[i])
    /\ optChain.pc # "idle" => RetryPolicyKept(optChain)
    /\ (settled.chain = "data" /\ ~settled.ok)
          => settled.ch.attempts = MAX_RETRIES

\* a fetchData chain has failed for the third time, after delays of 2000 ms
\* and 4000 ms, and has ended
W_C1_ThirdAttemptFailed ==
    /\ FinalFailure("data")
    /\ settled.ch.backoff = 2 * RETRY_DELAY

\* C2: the result of a fetchData chain is written to chartData,
\* companyTicker or error only while the selection is still the one the
\* chain was started for.
CX_C2_StaleResultNeverWritten ==
    settled.chain = "data"
       => /\ settled.ch.company = selectedCompany
          /\ settled.ch.metric = selectedMetric

\* C3: at most one request issued by fetchData is outstanding.
CX_C3_SingleInFlight ==
    Cardinality({i \in LiveChains : dataChains[i].call.st = "pending"}) <= 1

\* C4: when attempts 1 and 2 of a chain timed out and attempt 3 succeeded,
\* the payload is applied and error was never non-null from the start of
\* attempt 1 to the application of the payload.
CX_C4_NoVisibleIntermediateFailure ==
    (/\ settled.ok
     /\ settled.ch.attempts = MAX_RETRIES
     /\ settled.ch.allTimeouts)
       => /\ ~settled.ch.errSeen
          /\ settled.chain = "data"
                => chartData = SortByYear(settled.body.points)
          /\ (settled.chain = "options" /\ isMounted)
                => /\ companies = settled.body.names[1]
                   /\ metrics = settled.body.names[2]

AllCalls ==
    {dataChains[i].call : i \in LiveChains}
       \cup {optChain.calls[u] : u \in Endpoints} \cup orphans

\* C6: every fetchWithTimeout call sets its timer to 10 s; when the timer
\* fires first the request is aborted and the call fails with the "Request
\* timed out" error; when the request settles first the timer is cleared and
\* never aborts it; no timer is armed once the call has settled.
C6_TimeoutRace ==
    /\ \A c \in AllCalls :
          /\ c.st # "none" => c.ms = API_TIMEOUT
          /\ c.st \in {"resolved", "rejected"} => c.timer = "cleared"
          /\ c.st = "aborted" <=> c.timer = "fired"
          /\ c.timer = "armed" => c.st = "pending"
    /\ \A i \in LiveChains :
          dataChains[i].pc = "backoff"
             => (dataChains[i].call.st = "aborted"
                    <=> dataChains[i].e = TimedOutMsg)
    /\ \A u \in Endpoints :
          (optChain.pc = "backoff" /\ optChain.calls[u].st # "none")
             => (optChain.calls[u].st = "aborted" <=> optChain.e = TimedOutMsg)

\* a request of fetchData was aborted by its timer and the chain is in the
\* backoff with the time-out error, while another request got its response
\* in time and had its timer cleared
W_C6_TimedOutAndCleared ==
    /\ \E i \in LiveChains :
          /\ dataChains[i].pc = "backoff"
          /\ dataChains[i].call.st = "aborted"
          /\ dataChains[i].e = TimedOutMsg
    /\ \E i \in LiveChains :
          /\ dataChains[i].call.st = "resolved"
          /\ dataChains[i].call.timer = "cleared"

----------------------------------------------------------------------------
(* Claims about the back end, checked under SpecServer                     *)

\* parseData() has run for the last request
Parsed == res.status \in {200, 404}

\* the integer each year key of the datasets parses to, written out by
\* hand; -1 for a key that has no digit up front
YearOfKey(key) ==
    CASE key = Key2020 -> 2020
      [] key = Key2021 -> 2021
      [] key = Key2022E -> 2022
      [] OTHER -> -1

\* the (record, metric, year) places of a dataset
Triples(raw) ==
    UNION {UNION {{<<i, j, k>> :
                     k \in 1..Len(raw[i].Financials[j].years.entries)} :
                  j \in 1..Len(raw[i].Financials)} :
           i \in 1..Len(raw)}

ValidTriple(raw, t) ==
    LET rec == raw[t[1]]
        m == rec.Financials[t[2]]
        e == m.years.entries[t[3]]
    IN  /\ rec.Ticker # ""
        /\ rec.companyName # <<>>
        /\ m.years.kind = "object"
        /\ e.value.number
        /\ YearOfKey(e.key) >= 0

ObservationOf(raw, t) ==
    LET rec == raw[t[1]]
        m == rec.Financials[t[2]]
        e == m.years.entries[t[3]]
    IN  [company |-> rec.companyName, ticker |-> rec.Ticker,
         field |-> ToLowerCase(m.metric), year |-> YearOfKey(e.key),
         value |-> e.value.v]

\* C7: parseData gives exactly one observation for every (metric, year,
\* value) triple of a raw record that has a ticker and a company name,
\* whose value is a number and whose year key parses to an integer, and no
\* other observation: every observation comes as often in records as there
\* are such triples that give it.
C7_OneObservationPerValidTriple ==
    Parsed =>
       LET valid == {t \in Triples(rawData) : ValidTriple(rawData, t)}
           expected == {ObservationOf(rawData, t) : t \in valid}
       IN  \A o \in Range(data.records) \cup expected :
              Cardinality({k \in 1..Len(data.records) : data.records[k] = o})
                 = Cardinality({t \in valid : ObservationOf(rawData, t) = o})

\* a record without a ticker is followed by a record whose year mapping has
\* a value that is no number, a key that is no year and two entries that
\* count: parseData gave the two observations
W_C7_InvalidEntriesSkipped ==
    /\ Parsed
    /\ Len(rawData) = 2
    /\ rawData[1].Ticker = ""
    /\ rawData[2].Ticker = "ACME"
    /\ rawData[2].Financials
          = <<MetricEntry(Revenue, YearsB), MetricEntry(Profit, Mapping(<<>>))>>
    /\ Len(data.records) = 2
    /\ data.records[2].year = 2022

\* C8: the company list and the metric list are derived from the
\* observations: the metric list holds exactly the lower-cased metric names
\* of the observations, the company list exactly their company names, and
\* /api/companies and /api/metrics serve these lists.
CX_C8_ListsDerivedFromObservations ==
    /\ Parsed
          => /\ Range(data.metrics)
                   = {data.records[k].field : k \in 1..Len(data.records)}
             /\ Range(data.companies)
                   = {data.records[k].company : k \in 1..Len(data.records)}
    /\ req.url = "/api/metrics" => res.metrics = data.metrics
    /\ req.url = "/api/companies" => res.companies = data.companies

StrictlyAscending(list) ==
    \A i, j \in 1..Len(list) : i < j => StrLess(list[i], list[j])

\* C9: the company list and the metric list of parseData, and the lists
\* that /api/companies and /api/metrics serve, are in ascending order of the
\* default string comparison and hold no name twice, also when the dataset
\* repeats names.
C9_ListsSortedNoDuplicates ==
    /\ Parsed
          => /\ StrictlyAscending(data.companies)
             /\ StrictlyAscending(data.metrics)
    /\ StrictlyAscending(res.companies)
    /\ StrictlyAscending(res.metrics)

\* the same record twice, with its metrics in descending order: the metric
\* list served has each name once, in ascending order
W_C9_RepeatedNamesOutOfOrder ==
    /\ req.url = "/api/metrics"
    /\ Len(rawData) = 2
    /\ rawData[1] = rawData[2]
    /\ rawData[1].Ticker = "ACME"
    /\ rawData[1].Financials
          = <<MetricEntry(Revenue, YearsB), MetricEntry(Profit, Mapping(<<>>))>>
    /\ res.metrics = <<Profit, Revenue>>
    /\ data.companies = <<AcmeCo>>

\* a and b are the same text but for the case of their letters
SameLetters(a, b) ==
    /\ Len(a) = Len(b)
    /\ \A i \in 1..Len(a) :
          \/ a[i] = b[i]
          \/ /\ IsIn(a[i], UpperCase) /\ IsIn(b[i], LowerCase)
             /\ IndexOf(a[i], UpperCase) = IndexOf(b[i], LowerCase)
          \/ /\ IsIn(a[i], LowerCase) /\ IsIn(b[i], UpperCase)
             /\ IndexOf(a[i], LowerCase) = IndexOf(b[i], UpperCase)

\* the result of a query: found with a ticker and points, or not found
Outcome(r) == [status |-> r.status, ticker |-> r.ticker, points |-> r.points]

\* the names as the datasets write them
CanonicalCompanies == {AcmeCo, AcmeCoUpper, Unknown}
CanonicalMetrics == {Revenue, RevenueLower, Profit}

\* C10: GET /api/data called with a company and a metric in any letter
\* case gives the result (the ticker and the points, or not found) that
\* the call with the names as the dataset writes them gives.
C10_QueryIgnoresCase ==
    req.url = "/api/data"
       => \A c \in CanonicalCompanies : \A m \in CanonicalMetrics :
             (SameLetters(req.company, c) /\ SameLetters(req.metric, m))
                => Outcome(res) = Outcome(ApiData(rawData, c, m))

\* "acme co" and "REVENUE" were asked for and the data of "Acme Co" and
\* "Revenue" was found
W_C10_FoundInOtherCase ==
    /\ req = Req("/api/data", AcmeCoLower, RevenueUpper)
    /\ Len(rawData) = 1
    /\ rawData[1].companyName = AcmeCo
    /\ res.status = 200
    /\ res.ticker = "ACME"
    /\ res.points = <<Pt(2020, 100), Pt(2021, 150)>>

\* the observations of parseData that the query of the last request asks
\* for: those whose company and metric are the trimmed parameters but for
\* the case of the letters
Asked ==
    {k \in 1..Len(data.records) :
        /\ SameLetters(data.records[k].company, Trim(req.company))
        /\ SameLetters(data.records[k].field, Trim(req.metric))}

\* C11: GET /api/data with a company and a metric that are not empty
\* answers 404 with success: false, found: false, the trimmed company and
\* the trimmed (and lower-cased) metric exactly when no observation is asked
\* for, and answers 200 with success: true and found: true when at least one
\* is.
C11_NotFoundIffNoObservation ==
    (req.url = "/api/data" /\ Trim(req.company) # <<>> /\ Trim(req.metric) # <<>>)
       => /\ Asked = {}
                <=> /\ res.status = 404
                    /\ ~res.success
                    /\ ~res.found
                    /\ res.company = Trim(req.company)
                    /\ res.metric = ToLowerCase(Trim(req.metric))
          /\ Asked # {}
                => /\ res.status = 200
                   /\ res.success
                   /\ res.found

\* " ACME CO " and "profit" were asked for over a dataset that has
\* observations of Acme Co, none of them of profit: 404 with the company
\* trimmed
W_C11_NotFoundTrimmed ==
    /\ req = Req("/api/data", AcmeCoPadded, ProfitLower)
    /\ \E k \in 1..Len(data.records) : data.records[k].company = AcmeCo
    /\ res.status = 404
    /\ res.company = AcmeCoUpper
    /\ ~res.found

\* C12: the points of a successful /api/data answer hold one {year, value}
\* entry for every observation asked for, so that two observations of the
\* same year give two points, and the years of the points ascend, whatever
\* the order of the observations is.
C12_OnePointPerObservationAscending ==
    (req.url = "/api/data" /\ res.status = 200)
       => /\ Len(res.points) = Cardinality(Asked)
          /\ \A p \in Range(res.points) \cup
                       {Pt(data.records[k].year, data.records[k].value) :
                            k \in Asked} :
                Cardinality({i \in 1..Len(res.points) : res.points[i] = p})
                   = Cardinality({k \in Asked :
                                    /\ data.records[k].year = p.year
                                    /\ data.records[k].value = p.value})
          /\ \A i, j \in 1..Len(res.points) :
                i < j => res.points[i].year <= res.points[j].year
          /\ res.count = Len(res.points)

\* the record has 2021 and 2022 under Revenue and 2020 and 2021 under
\* revenue: the four observations come as 2021, 2022, 2020, 2021 and the
\* points as 2020, 2021, 2021, 2022
W_C12_DuplicateYearKept ==
    /\ req = Req("/api/data", AcmeCoLower, RevenueUpper)
    /\ Len(rawData) = 1
    /\ Len(data.records) = 4
    /\ data.records[1].year = 2021
    /\ data.records[3].year = 2020
    /\ res.status = 200
    /\ res.points
          = <<Pt(2020, 100), Pt(2021, 150), Pt(2021, 150), Pt(2022, 90)>>

----------------------------------------------------------------------------
(* Claims about the chart, checked under SpecChart                         *)

Rendered == chart # NoChart

\* all numbers of the drawing
Coordinates ==
    Range(chart.xTicks) \cup Range(chart.yTicks)
       \cup {chart.path[i].x : i \in 1..Len(chart.path)}
       \cup {chart.path[i].y : i \in 1..Len(chart.path)}
       \cup {chart.circles[i].cx : i \in 1..Len(chart.circles)}
       \cup {chart.circles[i].cy : i \in 1..Len(chart.circles)}

\* C13: LineChart never divides by zero: every number of the drawing is
\* finite.  When all years of the series are equal the denominator of
\* xScale is 1 and every point is at the left margin; when all values are
\* equal the denominator of yScale is 1 and every point is at the bottom of
\* the plot area.  A series of one point is drawn as a path of the single
\* command M and one marker, both at the left margin and the bottom.
C13_DegenerateRangesScaleByOne ==
    Rendered =>
       LET points == chartData
           left == Number(70)
           bottom == Number(420 - 40)
           sameYears == \A i, j \in 1..Len(points) :
                           points[i].year = points[j].year
           sameValues == \A i, j \in 1..Len(points) :
                            points[i].value = points[j].value
       IN  /\ \A c \in Coordinates : c.finite
           /\ Len(chart.path) = Len(points)
           /\ Len(chart.circles) = Len(points)
           /\ sameYears
                 => /\ XDenominator(points) = Number(1)
                    /\ \A i \in 1..Len(points) :
                          chart.circles[i].cx = left /\ chart.path[i].x = left
           /\ sameValues
                 => /\ YDenominator(points) = Number(1)
                    /\ \A i \in 1..Len(points) :
                          chart.circles[i].cy = bottom
                             /\ chart.path[i].y = bottom
           /\ Len(points) = 1
                 => /\ chart.path = <<[cmd |-> "M", x |-> left, y |-> bottom]>>
                    /\ chart.circles = <<[cx |-> left, cy |-> bottom]>>

\* a series of the single point (2020, 100) was rendered: one marker at
\* (70, 380)
W_C13_SinglePointDrawn ==
    /\ chartData = <<Pt(2020, 100)>>
    /\ Rendered
    /\ Len(chart.circles) = 1
    /\ chart.circles[1].cx.n = 70
    /\ chart.circles[1].cy.n = 380
    /\ chart.path[1].cmd = "M"

----------------------------------------------------------------------------
(* A further claim about the front end, checked under Spec                 *)

\* C14: while a load chain is active, with an attempt in flight or in the
\* delay before a retry, its loading flag is true: isLoading for every
\* fetchData chain, isLoadingOptions for the fetchOptions chain of a
\* mounted component.  (Both selects are disabled while either flag is
\* true.)
CX_C14_LoadingWhileChainActive ==
    /\ dataChains # <<>> => isLoading /\ ~CompanySelectEnabled
    /\ (optChain.pc # "idle" /\ isMounted)
          => isLoadingOptions /\ ~CompanySelectEnabled

====
